---- MODULE Spec2Model ----
(***************************************************************************)
(* Model of src/watcher/watcher.py (class LogWatcher): the pool-failover   *)
(* detector, the sliding-window error-rate detector and the cooldown /     *)
(* maintenance gate in front of the Slack sink.                            *)
(*                                                                         *)
(* Conventions                                                             *)
(*  - Python None is the empty tuple, a present value v is <<v>>.  A       *)
(*    method that returns False or a dict returns None or <<dict>>.        *)
(*  - a pool is a string; an upstream status is a sequence of one-char     *)
(*    strings, so that startswith('5') is computed on its first char.      *)
(*  - ERROR_RATE_THRESHOLD is a decimal text with at most two decimals,    *)
(*    held as the integer number of hundredths; the Python float it        *)
(*    denotes is ToFloat(hundredths).  Floats are IEEE-754 doubles.        *)
(*  - time.time() is an input of the step that reads it.                   *)
(*  - the 'timestamp' field of an alert (datetime.now()) and the debug     *)
(*    counters only reach the printed text and are left out.               *)
(***************************************************************************)
EXTENDS Integers, Sequences, FiniteSets, TLC

\* ---------------------------------------------------------------- bounds
MaxWindow == 5      \* WINDOW_SIZE is drawn from 1..MaxWindow
MaxObs == 6         \* observations fed to one detector in a run
BigWindow == 20     \* WINDOW_SIZE of the long-window specification
MaxTime == 3        \* time.time() is drawn from 0..MaxTime
MaxCooldown == 2    \* ALERT_COOLDOWN_SEC is drawn from 1..MaxCooldown

None == <<>>
Some(v) == <<v>>

Pools == {"", "unknown", "blue", "green"}
Statuses == {None, Some(<<"2", "0", "0">>), Some(<<"5", "0", "0">>), Some(<<"-">>)}
Thresholds == {2000, 3333}       \* 20 and 33.33 percent
LongThresholds == {5500}         \* 55 percent
Times == 0..MaxTime
Cooldowns == 1..MaxCooldown
AlertTypes == {"failover", "high_error_rate"}

\* ------------------------------------------------- IEEE-754 double values
\* A positive double is m * 2^(e - 52) with a 53-bit significand m, held as
\* five limbs <<1, l1, l2, l3, l4>> in base 2^13 (most significant first);
\* e is the exponent of the leading bit.  Zero has the limbs all 0.
LimbBase == 2^13

ZeroFloat == [m |-> <<0, 0, 0, 0, 0>>, e |-> 0]

IsZero(x) == x.m[1] = 0

\* round to nearest, ties to even: m is the truncated significand, up says
\* the dropped part is above one half of the last place, tie that it is
\* exactly one half
RoundNearestEven(m, e, up, tie) ==
    LET doInc == up \/ (tie /\ m[5] % 2 = 1)
        free == {i \in 2..5 : m[i] < LimbBase - 1}
        j == CHOOSE i \in free : \A k \in free : k <= i
    IN  IF ~doInc THEN [m |-> m, e |-> e]
        ELSE IF free = {} THEN [m |-> <<1, 0, 0, 0, 0>>, e |-> e + 1]
        ELSE [m |-> [i \in 1..5 |-> IF i < j THEN m[i]
                                    ELSE IF i = j THEN m[i] + 1 ELSE 0],
              e |-> e]

\* the double a / b of two integers 0 <= a, 0 < b, both below 2^14
\* (correctly rounded long division)
FloatDiv(a, b) ==
    IF a = 0 THEN ZeroFloat
    ELSE LET e == CHOOSE k \in -14..14 :
                    IF k >= 0 THEN (2^k) * b <= a /\ a < (2^(k + 1)) * b
                    ELSE b <= (2^(-k)) * a /\ (2^(-k)) * a < 2 * b
             num == IF e < 0 THEN (2^(-e)) * a ELSE a
             den == IF e > 0 THEN (2^e) * b ELSE b
             r0 == num - den
             r1 == (r0 * LimbBase) % den
             r2 == (r1 * LimbBase) % den
             r3 == (r2 * LimbBase) % den
             r4 == (r3 * LimbBase) % den
             m == <<1, (r0 * LimbBase) \div den, (r1 * LimbBase) \div den,
                       (r2 * LimbBase) \div den, (r3 * LimbBase) \div den>>
         IN  RoundNearestEven(m, e, 2 * r4 > den, 2 * r4 = den)

\* the exact product of a significand and a small integer 0 < k < 2^13:
\* limbs <<top, p2, p3, p4, p5>>, the top limb not reduced
ExactProduct(m, k) ==
    LET t5 == m[5] * k
        t4 == m[4] * k + (t5 \div LimbBase)
        t3 == m[3] * k + (t4 \div LimbBase)
        t2 == m[2] * k + (t3 \div LimbBase)
        t1 == m[1] * k + (t2 \div LimbBase)
    IN  <<t1, t2 % LimbBase, t3 % LimbBase, t4 % LimbBase, t5 % LimbBase>>

\* the double x * k (correctly rounded product)
FloatMul(x, k) ==
    IF IsZero(x) \/ k = 0 THEN ZeroFloat
    ELSE LET p == ExactProduct(x.m, k)
             s == CHOOSE n \in 0..13 : 2^n <= p[1] /\ p[1] < 2^(n + 1)
             lo == 2^s
             hi == 2^(13 - s)
             m == [i \in 1..5 |-> IF i = 1 THEN p[1] \div lo
                                  ELSE (p[i - 1] % lo) * hi + (p[i] \div lo)]
             dropped == p[5] % lo
         IN  IF s = 0 THEN [m |-> p, e |-> x.e]
             ELSE RoundNearestEven(m, x.e + s, 2 * dropped > lo, 2 * dropped = lo)

\* x > y on non-negative doubles
FloatGT(x, y) ==
    IF IsZero(x) THEN FALSE
    ELSE IF IsZero(y) THEN TRUE
    ELSE IF x.e # y.e THEN x.e > y.e
    ELSE \E i \in 1..5 : x.m[i] > y.m[i] /\ \A j \in 1..(i - 1) : x.m[j] = y.m[j]

\* float(text) of a decimal text with two decimals, given in hundredths
ToFloat(hundredths) == FloatDiv(hundredths, 100)

\* round(x, 2) for x = 0 or 1 <= x < 8192: the exact binary value of x times
\* 100, rounded half-even to an integer number of hundredths h; the float
\* that round returns is ToFloat(h)
PyRound2(x) ==
    IF IsZero(x) THEN 0
    ELSE LET p == ExactProduct(x.m, 100)
             d == 13 - x.e
             n == p[1] * (2^(13 - d)) + (p[2] \div (2^d))
             fr == p[2] % (2^d)
             half == fr >= 2^(d - 1)
             rest == fr % (2^(d - 1)) = 0 /\ p[3] = 0 /\ p[4] = 0 /\ p[5] = 0
         IN  IF ~half THEN n
             ELSE IF ~rest THEN n + 1
             ELSE IF n % 2 = 1 THEN n + 1 ELSE n

\* ------------------------------------------------------------------ state
VARIABLES
    slack_webhook,       \* BOOLEAN: SLACK_WEBHOOK_URL is set
    error_threshold,     \* ERROR_RATE_THRESHOLD, in hundredths of a percent
    window_size,         \* WINDOW_SIZE
    cooldown_sec,        \* ALERT_COOLDOWN_SEC
    maintenance_mode,    \* MAINTENANCE_MODE
    requests_available,  \* REQUESTS_AVAILABLE
    last_pool,           \* None or <<pool>>
    current_pool,        \* None or <<pool>>
    error_window,        \* the deque of is_error booleans, oldest first
    last_alert_time,     \* function from the alert types sent so far to a time
    line_in,             \* the line the last watch_logs iteration read
    pools_fed,           \* history: the pools given to check_failover when
                         \* it is called on its own (SpecFailover)
    statuses_fed,        \* history: the statuses given to check_error_rate
                         \* when it is called on its own (SpecRate, SpecLong)
    failover_ret,        \* what check_failover returned in the last step
    error_ret,           \* what check_error_rate returned in the last step
    gate_log,            \* the can_send_alert calls of the last step
    posted,              \* the alerts handed to requests.post in the last step
    send_call,           \* the last send_slack_alert call of the last step
                         \* and what it returned
    approved_at,         \* history: alert type -> time of its last approval
    approval_log,        \* history: the set of approved can_send_alert
                         \* calls, when send_slack_alert is called on its
                         \* own (SpecGate)
    clock_ok             \* history: time.time() never went back from one
                         \* send_slack_alert to the next (SpecGate)

config == <<slack_webhook, error_threshold, window_size, cooldown_sec,
            maintenance_mode, requests_available>>
failover_vars == <<last_pool, current_pool, pools_fed, failover_ret>>
rate_vars == <<error_window, statuses_fed, error_ret>>
gate_vars == <<last_alert_time, gate_log, posted, send_call, approved_at,
               approval_log, clock_ok>>
vars == <<config, line_in, failover_vars, rate_vars, gate_vars>>

\* the empty dict {}
EmptyDict == [k \in {} |-> 0]

\* LogWatcher.__init__ with the environment given by the parameters
LogWatcherInit(webhook, threshold, wsize, cooldown, maintenance, requests) ==
    /\ slack_webhook = webhook
    /\ error_threshold = threshold
    /\ window_size = wsize
    /\ cooldown_sec = cooldown
    /\ maintenance_mode = maintenance
    /\ requests_available = requests
    /\ last_pool = None
    /\ current_pool = None
    /\ error_window = <<>>
    /\ last_alert_time = EmptyDict
    /\ pools_fed = <<>>
    /\ statuses_fed = <<>>
    /\ failover_ret = None
    /\ error_ret = None
    /\ gate_log = <<>>
    /\ posted = <<>>
    /\ send_call = None
    /\ approved_at = EmptyDict
    /\ approval_log = {}
    /\ clock_ok = TRUE
    /\ line_in = None

\* ---------------------------------------------------- error-rate detector
\* a deque that overwrites its newest entry when full
deque_append_newest(dq, maxlen, x) ==
    IF maxlen = 0 THEN dq
    ELSE IF Len(dq) = maxlen THEN Append(SubSeq(dq, 1, maxlen - 1), x)
    ELSE Append(dq, x)

\* deque(maxlen=n).append(x)
deque_append(dq, maxlen, x) ==
    IF maxlen = 0 THEN dq
    ELSE IF Len(dq) = maxlen THEN Append(Tail(dq), x)
    ELSE Append(dq, x)

\* str.startswith('5')
startswith5(status) == Len(status) > 0 /\ status[1] = "5"

\* sum(self.error_window)
sum(dq) == Cardinality({i \in 1..Len(dq) : dq[i]})

\* a fullness test that is off by one
window_not_full_early(current_window_size, wsize) == current_window_size < wsize - 1

\* the partially-filled-window test of check_error_rate
window_not_full(current_window_size, wsize) == current_window_size < wsize

\* error_rate = (error_count / current_window_size) * 100
error_rate_of(error_count, current_window_size) ==
    FloatMul(FloatDiv(error_count, current_window_size), 100)

\* the dict check_error_rate returns; error_rate is in hundredths
error_alert_of(error_rate, threshold, current_window_size, error_count) ==
    [type |-> "high_error_rate",
     error_rate |-> PyRound2(error_rate),
     threshold |-> threshold,
     window_size |-> current_window_size,
     error_count |-> error_count]

\* a check_error_rate that raises only on an observation that is an error
check_error_rate_on_error_only(dq, wsize, threshold, status) ==
    IF status = None \/ status[1] = <<>> THEN [error_window |-> dq, ret |-> None]
    ELSE LET is_error == startswith5(status[1])
             dq2 == deque_append(dq, wsize, is_error)
             current_window_size == Len(dq2)
             error_count == sum(dq2)
             error_rate == error_rate_of(error_count, current_window_size)
         IN  IF window_not_full(current_window_size, wsize) \/ ~is_error
             THEN [error_window |-> dq2, ret |-> None]
             ELSE IF FloatGT(error_rate, ToFloat(threshold))
             THEN [error_window |-> dq2,
                   ret |-> Some(error_alert_of(error_rate, threshold,
                                               current_window_size, error_count))]
             ELSE [error_window |-> dq2, ret |-> None]

\* check_error_rate(log_data) on log_data['upstream_status'] = status:
\* the new deque and the returned value
check_error_rate(dq, wsize, threshold, status) ==
    IF status = None \/ status[1] = <<>> THEN [error_window |-> dq, ret |-> None]
    ELSE LET is_error == startswith5(status[1])
             dq2 == deque_append(dq, wsize, is_error)
             current_window_size == Len(dq2)
             error_count == sum(dq2)
             error_rate == error_rate_of(error_count, current_window_size)
         IN  IF window_not_full(current_window_size, wsize)
             THEN [error_window |-> dq2, ret |-> None]
             ELSE IF FloatGT(error_rate, ToFloat(threshold))
             THEN [error_window |-> dq2,
                   ret |-> Some(error_alert_of(error_rate, threshold,
                                               current_window_size, error_count))]
             ELSE [error_window |-> dq2, ret |-> None]

\* one call of check_error_rate, at most bound calls in a run
CheckErrorRate(status, bound) ==
    /\ Len(statuses_fed) < bound
    /\ LET r == check_error_rate(error_window, window_size, error_threshold, status)
       IN  /\ error_window' = r.error_window
           /\ error_ret' = r.ret
    /\ statuses_fed' = Append(statuses_fed, status)
    /\ UNCHANGED <<config, line_in, failover_vars, gate_vars>>

InitRate ==
    \E ws \in 1..MaxWindow, th \in Thresholds :
        LogWatcherInit(FALSE, th, ws, 1, FALSE, TRUE)

NextRate == \E status \in Statuses : CheckErrorRate(status, MaxObs)

\* the error-rate detector alone, fed any statuses
SpecRate == InitRate /\ [][NextRate]_vars

\* The watcher with WINDOW_SIZE = BigWindow after BigWindow - 2 requests, of
\* which the first k returned 500 and the others 200.
InitLong ==
    \E k \in 0..(BigWindow - 2), th \in LongThresholds :
        /\ slack_webhook = FALSE
        /\ error_threshold = th
        /\ window_size = BigWindow
        /\ cooldown_sec = 1
        /\ maintenance_mode = FALSE
        /\ requests_available = TRUE
        /\ last_pool = None
        /\ current_pool = None
        /\ error_window = [i \in 1..(BigWindow - 2) |-> i <= k]
        /\ statuses_fed = [i \in 1..(BigWindow - 2) |->
                              IF i <= k THEN Some(<<"5", "0", "0">>)
                              ELSE Some(<<"2", "0", "0">>)]
        /\ error_ret = None
        /\ last_alert_time = EmptyDict
        /\ pools_fed = <<>>
        /\ failover_ret = None
        /\ gate_log = <<>>
        /\ posted = <<>>
        /\ send_call = None
        /\ approved_at = EmptyDict
        /\ approval_log = {}
        /\ clock_ok = TRUE
        /\ line_in = None

NextLong == \E status \in Statuses : CheckErrorRate(status, BigWindow + 2)

\* the error-rate detector with a window of BigWindow entries
SpecLong == InitLong /\ [][NextLong]_vars

\* ------------------------------------------------------ failover detector
\* an ignored-pool test that forgets the "unknown" sentinel
is_ignored_pool_empty_only(pool) == pool = ""

\* not log_data['pool'] or log_data['pool'] == 'unknown'
is_ignored_pool(pool) == pool = "" \/ pool = "unknown"

\* a pool-change test that leaves out the comparison with the new pool
pool_changed_always(lp, pool) == lp # None /\ lp[1] # ""

\* self.last_pool and self.last_pool != log_data['pool']
pool_changed(lp, pool) == lp # None /\ lp[1] # "" /\ lp[1] # pool

\* the dict check_failover returns
failover_event_of(lp, pool) ==
    [type |-> "failover", from_pool |-> lp[1], to_pool |-> pool]

\* a check_failover that keeps the old last_pool when it reports a failover
check_failover_stale(lp, cp, pool) ==
    IF is_ignored_pool(pool) THEN [last_pool |-> lp, current_pool |-> cp, ret |-> None]
    ELSE IF pool_changed(lp, pool)
    THEN [last_pool |-> lp, current_pool |-> cp,
          ret |-> Some(failover_event_of(lp, pool))]
    ELSE [last_pool |-> Some(pool),
          current_pool |-> IF cp # Some(pool) THEN Some(pool) ELSE cp,
          ret |-> None]

\* check_failover(log_data) on log_data['pool'] = pool: the new last_pool and
\* current_pool and the returned value
check_failover(lp, cp, pool) ==
    IF is_ignored_pool(pool) THEN [last_pool |-> lp, current_pool |-> cp, ret |-> None]
    ELSE IF pool_changed(lp, pool)
    THEN [last_pool |-> Some(pool), current_pool |-> cp,
          ret |-> Some(failover_event_of(lp, pool))]
    ELSE [last_pool |-> Some(pool),
          current_pool |-> IF cp # Some(pool) THEN Some(pool) ELSE cp,
          ret |-> None]

\* one call of check_failover, at most bound calls in a run
CheckFailover(pool, bound) ==
    /\ Len(pools_fed) < bound
    /\ LET r == check_failover(last_pool, current_pool, pool)
       IN  /\ last_pool' = r.last_pool
           /\ current_pool' = r.current_pool
           /\ failover_ret' = r.ret
    /\ pools_fed' = Append(pools_fed, pool)
    /\ UNCHANGED <<config, line_in, rate_vars, gate_vars>>

InitFailover == LogWatcherInit(FALSE, 2000, 1, 1, FALSE, TRUE)

NextFailover == \E pool \in Pools : CheckFailover(pool, MaxObs)

\* the failover detector alone, fed any pools
SpecFailover == InitFailover /\ [][NextFailover]_vars

\* ------------------------------------------------------------ alert gate
\* d[k] = v on a dict
dict_set(d, k, v) == [x \in DOMAIN d \cup {k} |-> IF x = k THEN v ELSE d[x]]

\* a lookup that takes the latest time of any alert type: one bucket for all
dict_get0_shared(d, k) ==
    IF DOMAIN d = {} THEN 0
    ELSE CHOOSE v \in {d[x] : x \in DOMAIN d} : \A x \in DOMAIN d : d[x] <= v

\* self.last_alert_time.get(alert_type, 0)
dict_get0(d, k) == IF k \in DOMAIN d THEN d[k] ELSE 0

\* a cooldown test that still rejects when exactly cooldown_sec have passed
in_cooldown_inclusive(time_since_last, cooldown) == time_since_last <= cooldown

\* time_since_last < self.cooldown_sec
in_cooldown(time_since_last, cooldown) == time_since_last < cooldown

\* a can_send_alert that approves without writing the time
can_send_alert_no_write(lat, alert_type, now, cooldown) ==
    LET last_time == dict_get0(lat, alert_type)
        time_since_last == now - last_time
    IN  IF in_cooldown(time_since_last, cooldown)
        THEN [last_alert_time |-> lat, ret |-> FALSE]
        ELSE [last_alert_time |-> lat, ret |-> TRUE]

\* can_send_alert(alert_type) with time.time() = now: the new last_alert_time
\* and the returned value
can_send_alert(lat, alert_type, now, cooldown) ==
    LET last_time == dict_get0(lat, alert_type)
        time_since_last == now - last_time
    IN  IF in_cooldown(time_since_last, cooldown)
        THEN [last_alert_time |-> lat, ret |-> FALSE]
        ELSE [last_alert_time |-> dict_set(lat, alert_type, now), ret |-> TRUE]

\* early returns that leave out the maintenance switch
suppressed_no_maintenance(webhook, maintenance, requests) == ~webhook \/ ~requests

\* the early returns of send_slack_alert before the cooldown is looked at
suppressed(webhook, maintenance, requests) == ~webhook \/ maintenance \/ ~requests

\* what requests.post does: status 200, another status, or an exception
Responses == {"200", "500", "exception"}

\* a send_slack_alert that gives the cooldown slot back when the post fails
send_slack_alert_rollback(lat, alert_data, now, response, webhook, maintenance, requests, cooldown) ==
    IF suppressed(webhook, maintenance, requests)
    THEN [last_alert_time |-> lat, gate_log |-> <<>>, posted |-> <<>>, ret |-> FALSE]
    ELSE LET g == can_send_alert(lat, alert_data.type, now, cooldown)
             call == [alert_type |-> alert_data.type, now |-> now, ret |-> g.ret]
         IN  IF ~g.ret
             THEN [last_alert_time |-> g.last_alert_time, gate_log |-> <<call>>,
                   posted |-> <<>>, ret |-> FALSE]
             ELSE [last_alert_time |-> IF response = "200" THEN g.last_alert_time ELSE lat,
                   gate_log |-> <<call>>,
                   posted |-> <<[alert |-> alert_data, response |-> response]>>,
                   ret |-> (response = "200")]

\* send_slack_alert(alert_data) with time.time() = now and the sink
\* answering response: the new last_alert_time, the can_send_alert calls made,
\* the requests.post calls made and the returned value
send_slack_alert(lat, alert_data, now, response, webhook, maintenance, requests, cooldown) ==
    IF suppressed(webhook, maintenance, requests)
    THEN [last_alert_time |-> lat, gate_log |-> <<>>, posted |-> <<>>, ret |-> FALSE]
    ELSE LET g == can_send_alert(lat, alert_data.type, now, cooldown)
             call == [alert_type |-> alert_data.type, now |-> now, ret |-> g.ret]
         IN  IF ~g.ret
             THEN [last_alert_time |-> g.last_alert_time, gate_log |-> <<call>>,
                   posted |-> <<>>, ret |-> FALSE]
             ELSE [last_alert_time |-> g.last_alert_time, gate_log |-> <<call>>,
                   posted |-> <<[alert |-> alert_data, response |-> response]>>,
                   ret |-> (response = "200")]

\* the approval times after the can_send_alert calls of one
\* send_slack_alert
record_approvals(approved, calls) ==
    IF calls # <<>> /\ calls[1].ret
    THEN dict_set(approved, calls[1].alert_type, calls[1].now)
    ELSE approved

\* alerts as the detectors build them
SampleAlerts ==
    {failover_event_of(Some("blue"), "green"),
     failover_event_of(Some("green"), "blue"),
     error_alert_of(ToFloat(4000), 2000, 5, 2),
     error_alert_of(ToFloat(6000), 2000, 5, 3)}

\* the can_send_alert calls that returned True
approvals_of(calls) == {calls[i] : i \in {j \in DOMAIN calls : calls[j].ret}}

\* one call of send_slack_alert
SendSlackAlert(alert_data, now, response) ==
    /\ LET r == send_slack_alert(last_alert_time, alert_data, now, response,
                                 slack_webhook, maintenance_mode,
                                 requests_available, cooldown_sec)
       IN  /\ last_alert_time' = r.last_alert_time
           /\ gate_log' = r.gate_log
           /\ posted' = r.posted
           /\ send_call' = Some([alert_data |-> alert_data, now |-> now, ret |-> r.ret])
           /\ approved_at' = record_approvals(approved_at, r.gate_log)
           /\ approval_log' = approval_log \cup approvals_of(r.gate_log)
    /\ clock_ok' = (clock_ok /\ (send_call = None \/ send_call[1].now <= now))
    /\ UNCHANGED <<config, line_in, failover_vars, rate_vars>>

InitGate ==
    \E wh \in BOOLEAN, cd \in Cooldowns, mm \in BOOLEAN, rq \in BOOLEAN :
        LogWatcherInit(wh, 2000, 1, cd, mm, rq)

NextGate ==
    \E alert_data \in SampleAlerts, now \in Times, response \in Responses :
        SendSlackAlert(alert_data, now, response)

\* the gate and the sink alone, given any alerts at any times
SpecGate == InitGate /\ [][NextGate]_vars

\* ------------------------------------------------------ watch_logs loop
\* A raw line is given by what it holds: blank (only whitespace) or not, and
\* the text that follows pool=" up to the closing quote, upstream_status=
\* and request_time= (None when the key is not in the line).  The release
\* and upstream_addr tokens are read by nothing and are left out.
Digits == {"0", "1", "2", "3", "4", "5", "6", "7", "8", "9"}

\* re.search(key=([class]+)): the longest prefix of text made of the class,
\* None when it is empty
re_prefix(text, class) ==
    IF text = None THEN None
    ELSE LET ok == {n \in 1..Len(text[1]) : \A i \in 1..n : text[1][i] \in class}
         IN  IF ok = {} THEN None
             ELSE Some(SubSeq(text[1], 1, CHOOSE n \in ok : \A m \in ok : m <= n))

\* float(text) raises ValueError on a text of digits and dots unless it has
\* a digit and at most one dot
float_raises(text) ==
    \/ Cardinality({i \in 1..Len(text) : text[i] = "."}) > 1
    \/ \A i \in 1..Len(text) : text[i] = "."

\* a parse that gives a line without a pool token the pool 'unknown'
parse_log_line_default_pool(line) ==
    IF line.blank THEN None
    ELSE LET pool_match == IF line.pool = None THEN Some("unknown") ELSE line.pool
             upstream_status_match == re_prefix(line.upstream_status, Digits \cup {"-"})
             request_time_match == re_prefix(line.request_time, Digits \cup {"."})
         IN  IF request_time_match # None /\ float_raises(request_time_match[1])
             THEN None
             ELSE Some([pool |-> pool_match[1],
                        upstream_status |-> upstream_status_match,
                        request_time |-> request_time_match])

\* parse_log_line(line): None or <<log_data>>
parse_log_line(line) ==
    IF line.blank THEN None
    ELSE LET pool_match == line.pool
             upstream_status_match == re_prefix(line.upstream_status, Digits \cup {"-"})
             request_time_match == re_prefix(line.request_time, Digits \cup {"."})
         IN  IF pool_match = None THEN None
             ELSE IF request_time_match # None /\ float_raises(request_time_match[1])
             THEN None
             ELSE Some([pool |-> pool_match[1],
                        upstream_status |-> upstream_status_match,
                        request_time |-> request_time_match])

GoodTime == Some(<<"0", ".", "5">>)
BadTime == Some(<<"1", ".", "2", ".", "3">>)

Lines ==
    {[blank |-> TRUE, pool |-> None, upstream_status |-> None, request_time |-> None],
     [blank |-> FALSE, pool |-> None, upstream_status |-> Some(<<"5", "0", "0">>),
      request_time |-> GoodTime],
     [blank |-> FALSE, pool |-> Some("blue"), upstream_status |-> Some(<<"5", "0", "0">>),
      request_time |-> BadTime]}
    \cup [blank : {FALSE},
          pool : {Some("unknown"), Some("blue"), Some("green")},
          upstream_status : Statuses,
          request_time : {GoodTime}]

no_send(lat) == [last_alert_time |-> lat, gate_log |-> <<>>, posted |-> <<>>, ret |-> FALSE]

\* the iteration on a line parse_log_line returns None for: continue
SkipLine(line) ==
    /\ parse_log_line(line) = None
    /\ line_in' = Some(line)
    /\ failover_ret' = None
    /\ error_ret' = None
    /\ gate_log' = <<>>
    /\ posted' = <<>>
    /\ send_call' = None
    /\ UNCHANGED <<config, last_pool, current_pool, error_window, last_alert_time,
                   approved_at, approval_log, clock_ok, pools_fed, statuses_fed>>

\* an error-rate step that counts an absent status as a success
error_rate_step_counts_absent(dq, wsize, threshold, status) ==
    IF status # None /\ status[1] # <<>>
    THEN check_error_rate(dq, wsize, threshold, status)
    ELSE [error_window |-> deque_append(dq, wsize, FALSE), ret |-> None]

\* if log_data['upstream_status']: check_error_rate(log_data), else nothing
error_rate_step(dq, wsize, threshold, status) ==
    IF status # None /\ status[1] # <<>>
    THEN check_error_rate(dq, wsize, threshold, status)
    ELSE [error_window |-> dq, ret |-> None]

\* if alert: self.send_slack_alert(alert)
send_if(alert, lat, now, response, webhook, maintenance, requests, cooldown) ==
    IF alert # None
    THEN send_slack_alert(lat, alert[1], now, response, webhook, maintenance,
                          requests, cooldown)
    ELSE no_send(lat)

\* the values time.time() can return in send_slack_alert(alert): any, when
\* the call reaches can_send_alert (0 stands for a clock that is not read)
clock_reads(alert) ==
    IF alert # None /\ ~suppressed(slack_webhook, maintenance_mode, requests_available)
    THEN Times ELSE {0}

\* the answers of the sink in send_slack_alert(alert) at time now: any, when
\* the call reaches requests.post ("200" stands for a sink that is not called)
sink_answers(alert, lat, now) ==
    IF /\ alert # None
       /\ ~suppressed(slack_webhook, maintenance_mode, requests_available)
       /\ can_send_alert(lat, alert[1].type, now, cooldown_sec).ret
    THEN Responses ELSE {"200"}

\* a last_pool that goes back to the old pool when the failover alert was
\* not sent
pool_after_unsent(f, s1) ==
    IF f.ret # None /\ ~s1.ret THEN Some(f.ret[1].from_pool) ELSE f.last_pool

\* last_pool after the failover alert was handed to send_slack_alert: what
\* check_failover left, the result of send_slack_alert being dropped
pool_after(f, s1) == f.last_pool

\* the posts of an iteration with the error-rate alert's post put first
posts_of_reversed(s1, s2) == s2.posted \o s1.posted

\* the posts of an iteration: those of the failover alert's send_slack_alert,
\* then those of the error-rate alert's
posts_of(s1, s2) == s1.posted \o s2.posted

\* the iteration on a line that parses to log_data: check_failover, its
\* alert, check_error_rate, its alert; t1, r1 and t2, r2 are the clock and
\* the sink's answer at the failover alert and at the error-rate alert
ProcessLine(line) ==
    /\ parse_log_line(line) # None
    /\ \E log_data \in {parse_log_line(line)[1]} :
       \E f \in {check_failover(last_pool, current_pool, log_data.pool)} :
       \E e \in {error_rate_step(error_window, window_size, error_threshold,
                                 log_data.upstream_status)} :
       \E t1 \in clock_reads(f.ret) :
       \E r1 \in sink_answers(f.ret, last_alert_time, t1) :
       \E s1 \in {send_if(f.ret, last_alert_time, t1, r1, slack_webhook,
                          maintenance_mode, requests_available, cooldown_sec)} :
       \E t2 \in clock_reads(e.ret) :
       \E r2 \in sink_answers(e.ret, s1.last_alert_time, t2) :
       \E s2 \in {send_if(e.ret, s1.last_alert_time, t2, r2, slack_webhook,
                          maintenance_mode, requests_available, cooldown_sec)} :
           /\ line_in' = Some(line)
           /\ last_pool' = pool_after(f, s1)
           /\ current_pool' = f.current_pool
           /\ failover_ret' = f.ret
           /\ error_window' = e.error_window
           /\ error_ret' = e.ret
           /\ last_alert_time' = s2.last_alert_time
           /\ gate_log' = s1.gate_log \o s2.gate_log
           /\ posted' = posts_of(s1, s2)
           /\ send_call' =
                 IF e.ret # None
                 THEN Some([alert_data |-> e.ret[1], now |-> t2, ret |-> s2.ret])
                 ELSE IF f.ret # None
                 THEN Some([alert_data |-> f.ret[1], now |-> t1, ret |-> s1.ret])
                 ELSE None
           /\ approved_at' =
                 record_approvals(record_approvals(approved_at, s1.gate_log),
                                  s2.gate_log)
    /\ UNCHANGED <<config, pools_fed, statuses_fed, approval_log, clock_ok>>

Init ==
    \E wh \in BOOLEAN, mm \in BOOLEAN :
        LogWatcherInit(wh, 2000, 2, MaxCooldown, mm, TRUE)

\* the loop body of watch_logs, for any line that is read
Next == \E line \in Lines : SkipLine(line) \/ ProcessLine(line)

\* the watcher reading lines
Spec == Init /\ [][Next]_vars

\* ------------------------------------------- claims: error-rate detector
present(status) == status # None /\ status[1] # <<>>

\* the is_error outcomes of the statuses fed so far that were present
classified ==
    LET fed == SelectSeq(statuses_fed, present)
    IN  [i \in 1..Len(fed) |-> startswith5(fed[i][1])]

\* the last n entries of a sequence
LastN(seq, n) ==
    IF Len(seq) <= n THEN seq ELSE SubSeq(seq, Len(seq) - n + 1, Len(seq))

fed_status == statuses_fed[Len(statuses_fed)]

\* C1: while the window holds fewer than window_size entries, check_error_rate
\* returns no alert, whatever the share of errors in the window.
C1_NoAlertOnPartialWindow ==
    Len(error_window) < window_size => error_ret = None

\* a partial window of two or more outcomes, all errors, was just observed
C1_Witness ==
    /\ statuses_fed # <<>>
    /\ present(fed_status)
    /\ Len(error_window) >= 2
    /\ Len(error_window) = window_size - 1
    /\ \A i \in 1..Len(error_window) : error_window[i]
    /\ error_ret = None

\* C2: once the window is full, an observation with a present status raises
\* HighErrorRate iff 100 * errors / window_size is strictly greater than the
\* threshold, and the event carries the error count and the capacity.
C2_RaisesIffAboveThreshold ==
    (statuses_fed # <<>> /\ present(fed_status) /\ Len(error_window) = window_size)
    => /\ (error_ret # None) <=>
             (10000 * sum(error_window) > error_threshold * window_size)
       /\ error_ret # None =>
             /\ error_ret[1].error_count = sum(error_window)
             /\ error_ret[1].window_size = window_size

\* C3: the window never holds more than window_size entries and is always
\* the most recent min(n, window_size) classified outcomes, oldest first.
C3_WindowIsLastOutcomes ==
    /\ Len(error_window) <= window_size
    /\ error_window = LastN(classified, window_size)

\* an outcome was pushed into a full window and the oldest one left
C3_Witness ==
    /\ Len(classified) > window_size
    /\ window_size >= 2
    /\ classified[Len(classified) - window_size] # error_window[1]
    /\ error_window[1] # error_window[Len(error_window)]

\* C7: the error_rate carried by a raised alert is strictly greater than the
\* threshold carried by the same alert.
C7_ReportedRateAboveThreshold ==
    error_ret # None =>
        FloatGT(ToFloat(error_ret[1].error_rate), ToFloat(error_ret[1].threshold))

\* --------------------------------------------- claims: failover detector
valid_pool(pool) == pool # "" /\ pool # "unknown"

fed_pool == pools_fed[Len(pools_fed)]

\* the last valid pool among the first n pools fed, or None
last_valid(n) ==
    LET valid == {i \in 1..n : valid_pool(pools_fed[i])}
    IN  IF valid = {} THEN None
        ELSE Some(pools_fed[CHOOSE i \in valid : \A j \in valid : j <= i])

prev_valid == last_valid(Len(pools_fed) - 1)

\* C4: check_failover raises a Failover exactly at an observation whose
\* pool is valid and differs from the previous valid pool, from that
\* previous pool to the observed one, and raises nothing otherwise.
C4_FailoverExactlyOnChange ==
    pools_fed # <<>> =>
        IF valid_pool(fed_pool) /\ prev_valid # None /\ prev_valid # Some(fed_pool)
        THEN failover_ret = Some([type |-> "failover",
                                  from_pool |-> prev_valid[1],
                                  to_pool |-> fed_pool])
        ELSE failover_ret = None

\* blue, blue, green, green, blue: the second event, green -> blue
C4_Witness ==
    /\ pools_fed = <<"blue", "blue", "green", "green", "blue">>
    /\ failover_ret = Some([type |-> "failover", from_pool |-> "green",
                            to_pool |-> "blue"])

\* C5: an observation whose pool is empty or "unknown" returns nothing and
\* leaves last_pool as it was, and no Failover has such a pool as its from
\* or its to.
C5_UnknownPoolIgnored ==
    /\ (pools_fed # <<>> /\ ~valid_pool(fed_pool)) =>
            (failover_ret = None /\ last_pool = prev_valid)
    /\ failover_ret # None =>
            (valid_pool(failover_ret[1].from_pool) /\ valid_pool(failover_ret[1].to_pool))

\* blue, unknown: nothing raised and last_pool still blue
C5_Witness ==
    /\ pools_fed = <<"blue", "unknown">>
    /\ last_pool = Some("blue")
    /\ failover_ret = None

\* C6: a Failover has from_pool # to_pool, none is raised on the first valid
\* observation, and after a valid observation last_pool is the observed pool
\* whether or not an event was raised.
C6_FailoverInvariants ==
    /\ failover_ret # None => failover_ret[1].from_pool # failover_ret[1].to_pool
    /\ (pools_fed # <<>> /\ prev_valid = None) => failover_ret = None
    /\ (pools_fed # <<>> /\ valid_pool(fed_pool)) => last_pool = Some(fed_pool)

\* a repeated valid pool after the first valid one: no event, last_pool set
C6_Witness ==
    /\ pools_fed = <<"unknown", "green", "green">>
    /\ last_pool = Some("green")
    /\ failover_ret = None

\* ----------------------------------------------------- claims: alert gate
\* C8: with maintenance_mode on, every send_slack_alert is rejected, nothing
\* reaches the sink, and last_alert_time gets no entry.
C8_MaintenanceSuppressesAll ==
    maintenance_mode =>
        /\ posted = <<>>
        /\ gate_log = <<>>
        /\ last_alert_time = EmptyDict
        /\ send_call # None => ~send_call[1].ret

\* an alert was tried under maintenance at a time the cooldown would allow
C8_Witness ==
    /\ maintenance_mode /\ slack_webhook /\ requests_available
    /\ send_call # None
    /\ send_call[1].now >= cooldown_sec
    /\ ~send_call[1].ret

\* C9: with maintenance off, once an alert of a type was approved at time t,
\* a can_send_alert of that type at t2 is rejected and leaves last_alert_time
\* unchanged when t2 - t < cooldown_sec, and is approved and sets
\* last_alert_time[type] = t2 when t2 - t >= cooldown_sec.
C9_CooldownAfterApproval ==
    [][(~maintenance_mode /\ gate_log' # <<>>
          /\ gate_log'[1].alert_type \in DOMAIN approved_at)
       => LET k == gate_log'[1].alert_type
              t == approved_at[k]
              t2 == gate_log'[1].now
          IN  IF t2 - t < cooldown_sec
              THEN ~gate_log'[1].ret /\ last_alert_time' = last_alert_time
              ELSE /\ gate_log'[1].ret
                   /\ last_alert_time' = dict_set(last_alert_time, k, t2)]_vars

\* an alert was rejected less than cooldown_sec after an approval of its type
C9_Witness ==
    /\ ~maintenance_mode
    /\ gate_log # <<>>
    /\ ~gate_log[1].ret
    /\ gate_log[1].alert_type \in DOMAIN approved_at
    /\ gate_log[1].now > approved_at[gate_log[1].alert_type]
    /\ gate_log[1].now - approved_at[gate_log[1].alert_type] < cooldown_sec

\* C10: with maintenance off, a can_send_alert for a type with no entry in
\* last_alert_time is approved whatever the time, and creates the entry.
C10_FirstAlertAlwaysApproved ==
    [][(~maintenance_mode /\ gate_log' # <<>>
          /\ gate_log'[1].alert_type \notin DOMAIN last_alert_time)
       => /\ gate_log'[1].ret
          /\ last_alert_time' =
                dict_set(last_alert_time, gate_log'[1].alert_type, gate_log'[1].now)]_vars

\* the dicts last_alert_time can be
Dicts == UNION {[S -> Times] : S \in SUBSET AlertTypes}

\* the dicts that agree with lat on the entry of alert type k
SameEntry(lat, k) ==
    {d \in Dicts :
        /\ k \in DOMAIN d <=> k \in DOMAIN lat
        /\ k \in DOMAIN lat => d[k] = lat[k]}

\* C11: a can_send_alert of type k leaves the entry of the other type as it
\* was, its decision and the entry of k it leaves are the same for every
\* alert of type k (whatever its pools or its rate) and for every content of
\* the other entry, and last_alert_time has no key but the two alert types.
C11_GatePerKind ==
    [][/\ DOMAIN last_alert_time' \subseteq AlertTypes
       /\ gate_log' # <<>> =>
            LET k == gate_log'[1].alert_type
                now == gate_log'[1].now
            IN  /\ \A o \in AlertTypes \ {k} :
                      /\ o \in DOMAIN last_alert_time' <=> o \in DOMAIN last_alert_time
                      /\ o \in DOMAIN last_alert_time
                            => last_alert_time'[o] = last_alert_time[o]
                /\ \A d \in SameEntry(last_alert_time, k) :
                   \A a \in {x \in SampleAlerts : x.type = k} :
                      LET g == can_send_alert(d, a.type, now, cooldown_sec)
                      IN  /\ g.ret = gate_log'[1].ret
                          /\ k \in DOMAIN g.last_alert_time
                                <=> k \in DOMAIN last_alert_time'
                          /\ k \in DOMAIN last_alert_time'
                                => g.last_alert_time[k] = last_alert_time'[k]]_vars

\* a failover alert was approved at a time when the high_error_rate entry
\* is still in its cooldown
C11_Witness ==
    /\ gate_log # <<>>
    /\ gate_log[1].alert_type = "failover"
    /\ gate_log[1].ret
    /\ "high_error_rate" \in DOMAIN last_alert_time
    /\ gate_log[1].now >= last_alert_time["high_error_rate"]
    /\ gate_log[1].now - last_alert_time["high_error_rate"] < cooldown_sec

\* the record the last iteration parsed its line to, None when it skipped it
record_of(line) == IF line = None THEN None ELSE parse_log_line(line[1])

record_in == record_of(line_in)

\* the cooldown test of can_send_alert passes for alert_type at time now
cooldown_free(lat, alert_type, now) ==
    ~in_cooldown(now - dict_get0(lat, alert_type), cooldown_sec)

\* C12: on every parsed line check_failover runs and returns what it returns
\* on its own, and the error-rate check runs whatever check_failover
\* returned: a present status enters the window; when both return an alert
\* with the webhook set, maintenance off and requests importable, the gate is
\* asked for the failover alert and then for the error-rate alert, and when
\* the cooldown test passes for both, both are posted, the failover alert
\* first.
C12_BothChecksFailoverFirst ==
    [][\A r \in {record_of(line_in')} :
       \A log_data \in {r[i] : i \in DOMAIN r} :
       \A f \in {check_failover(last_pool, current_pool, log_data.pool)} :
            /\ failover_ret' = f.ret /\ last_pool' = f.last_pool
            /\ present(log_data.upstream_status)
                  => error_window' =
                        deque_append(error_window, window_size,
                                     startswith5(log_data.upstream_status[1]))
            /\ (/\ failover_ret' # None
                /\ error_ret' # None
                /\ ~suppressed(slack_webhook, maintenance_mode, requests_available))
               => /\ Len(gate_log') = 2
                  /\ gate_log'[1].alert_type = "failover"
                  /\ gate_log'[2].alert_type = "high_error_rate"
                  /\ (/\ cooldown_free(last_alert_time, "failover", gate_log'[1].now)
                      /\ cooldown_free(last_alert_time, "high_error_rate",
                                       gate_log'[2].now))
                     => /\ Len(posted') = 2
                        /\ posted'[1].alert = failover_ret'[1]
                        /\ posted'[2].alert = error_ret'[1]]_vars

\* one line raised a failover and an error-rate alert and both were posted
C12_Witness ==
    /\ failover_ret # None
    /\ error_ret # None
    /\ Len(posted) = 2
    /\ posted[1].alert.type = "failover"
    /\ posted[2].alert.type = "high_error_rate"

\* the alert types whose post failed in the last step
failed_kinds(posts) ==
    {posts[i].alert.type : i \in {j \in DOMAIN posts : posts[j].response # "200"}}

\* C13: when the post of an approved alert fails (another status or an
\* exception), last_pool and the window are what the detectors left, each
\* alert is posted at most once, and last_alert_time keeps the time of the
\* approval; a can_send_alert of the same type less than cooldown_sec after
\* that approval is rejected and posts nothing.
C13_FailedDeliveryKeepsCooldown ==
    [][/\ \A k \in failed_kinds(posted') :
            /\ \E i \in DOMAIN gate_log' :
                  /\ gate_log'[i].alert_type = k /\ gate_log'[i].ret
                  /\ k \in DOMAIN last_alert_time'
                  /\ last_alert_time'[k] = gate_log'[i].now
            /\ Cardinality({i \in DOMAIN posted' : posted'[i].alert.type = k}) = 1
            /\ \A r \in {record_of(line_in')} :
               \A log_data \in {r[i] : i \in DOMAIN r} :
                  /\ last_pool' = check_failover(last_pool, current_pool,
                                                 log_data.pool).last_pool
                  /\ error_window' =
                        IF present(log_data.upstream_status)
                        THEN deque_append(error_window, window_size,
                                          startswith5(log_data.upstream_status[1]))
                        ELSE error_window
       /\ \A k \in failed_kinds(posted) :
          \A i \in DOMAIN gate_log' :
             (/\ gate_log'[i].alert_type = k
              /\ gate_log'[i].now - approved_at[k] < cooldown_sec)
             => /\ ~gate_log'[i].ret
                /\ \A j \in DOMAIN posted' : posted'[j].alert.type # k]_vars

\* the post of an approved failover alert failed and last_alert_time holds
\* the time of the approval
C13_Witness ==
    /\ "failover" \in failed_kinds(posted)
    /\ "failover" \in DOMAIN last_alert_time
    /\ gate_log # <<>>
    /\ gate_log[1].alert_type = "failover"
    /\ gate_log[1].ret
    /\ last_alert_time["failover"] = gate_log[1].now
    /\ last_pool # None

\* C14: a record with no upstream_status leaves the window as it was, in
\* length and in contents, and raises no error-rate alert: none is returned,
\* none is given to the gate, none is posted.
C14_AbsentStatusLeavesWindow ==
    [][\A r \in {record_of(line_in')} :
       \A log_data \in {r[i] : i \in DOMAIN r} :
          log_data.upstream_status = None
          => /\ error_window' = error_window
             /\ error_ret' = None
             /\ \A i \in DOMAIN gate_log' : gate_log'[i].alert_type # "high_error_rate"
             /\ \A i \in DOMAIN posted' : posted'[i].alert.type # "high_error_rate"]_vars

\* a record with no upstream_status was read while the window was full of
\* errors
C14_Witness ==
    /\ record_in # None
    /\ record_in[1].upstream_status = None
    /\ Len(error_window) = window_size
    /\ \A i \in DOMAIN error_window : error_window[i]
    /\ error_ret = None

\* C15: a line that is not blank and has a pool token is parsed to a record
\* with its pool and its upstream_status, also when its request_time text
\* is not a number, and the detectors then see it: a valid pool becomes
\* last_pool.
C15_MalformedTimeStillParsed ==
    \A line \in {line_in[i] : i \in DOMAIN line_in} :
        (~line.blank /\ line.pool # None)
        => /\ record_in # None
           /\ record_in[1].pool = line.pool[1]
           /\ record_in[1].upstream_status
                 = re_prefix(line.upstream_status, Digits \cup {"-"})
           /\ ~is_ignored_pool(line.pool[1]) => last_pool = line.pool

\* C16: a line that is blank or has no pool token gives no record, and the
\* iteration that reads it leaves last_pool, the window and last_alert_time
\* as they were, raises nothing, asks the gate nothing and posts nothing,
\* whatever upstream_status the line carries.
C16_NoPoolLineSkipped ==
    [][\A line \in {line_in'[i] : i \in DOMAIN line_in'} :
          (line.blank \/ line.pool = None)
          => /\ parse_log_line(line) = None
             /\ last_pool' = last_pool
             /\ error_window' = error_window
             /\ last_alert_time' = last_alert_time
             /\ failover_ret' = None /\ error_ret' = None
             /\ gate_log' = <<>> /\ posted' = <<>>]_vars

\* a line with a 500 status and no pool token was read while the window
\* held one error short of a full window of errors
C16_Witness ==
    /\ line_in # None
    /\ ~line_in[1].blank
    /\ line_in[1].pool = None
    /\ line_in[1].upstream_status = Some(<<"5", "0", "0">>)
    /\ window_size > 1
    /\ Len(error_window) = window_size - 1
    /\ \A i \in DOMAIN error_window : error_window[i]
    /\ last_pool # None

\* C17: a parsed line whose token is upstream_status=- adds no entry to the
\* window: the window stays as it was and no error-rate alert is returned.
C17_DashStatusNotObserved ==
    [][\A line \in {line_in'[i] : i \in DOMAIN line_in'} :
          (parse_log_line(line) # None /\ line.upstream_status = Some(<<"-">>))
          => /\ error_window' = error_window
             /\ error_ret' = None]_vars

\* the share of errors in the window is above threshold hundredths of a
\* percent, in exact arithmetic
rate_above(dq, threshold) == 10000 * sum(dq) > threshold * Len(dq)

\* C18: every observation with a present status that leaves the window full
\* with a rate above the threshold raises an error-rate alert, whether or not
\* the step before raised one; with the webhook set, maintenance off and
\* requests importable each such alert is given to the gate, and it is posted
\* exactly when the cooldown test passes.
C18_LevelTriggered ==
    [][\A r \in {record_of(line_in')} :
       \A log_data \in {r[i] : i \in DOMAIN r} :
          (/\ present(log_data.upstream_status)
           /\ Len(error_window') = window_size
           /\ rate_above(error_window', error_threshold))
          => /\ error_ret' # None
             /\ ~suppressed(slack_webhook, maintenance_mode, requests_available)
                => \E i \in DOMAIN gate_log' :
                      /\ gate_log'[i].alert_type = "high_error_rate"
                      /\ gate_log'[i].ret
                            <=> cooldown_free(last_alert_time, "high_error_rate",
                                              gate_log'[i].now)
                      /\ gate_log'[i].ret
                            <=> \E j \in DOMAIN posted' :
                                   posted'[j].alert = error_ret'[1]]_vars

\* an observation that is not an error raised the alert again on a window
\* that was already above the threshold, and the gate rejected it inside the
\* cooldown of an earlier approval
C18_Witness ==
    /\ record_in # None
    /\ present(record_in[1].upstream_status)
    /\ ~startswith5(record_in[1].upstream_status[1])
    /\ error_ret # None
    /\ "high_error_rate" \in DOMAIN approved_at
    /\ \E i \in DOMAIN gate_log :
          /\ gate_log[i].alert_type = "high_error_rate"
          /\ ~gate_log[i].ret
          /\ gate_log[i].now >= approved_at["high_error_rate"]
    /\ posted = <<>>

\* C19: last_pool, the window and the alerts the detectors return after an
\* iteration are given by last_pool and the window before it and the line
\* read, whatever the webhook, maintenance mode, cooldown, clock and answers
\* of the sink are; so runs over the same lines agree on them after every
\* line.  A failover whose alert is suppressed, rejected or not delivered
\* still sets last_pool.
C19_DetectionIndependentOfAlerting ==
    [][\A r \in {record_of(line_in')} :
          IF r = None
          THEN /\ last_pool' = last_pool /\ error_window' = error_window
               /\ failover_ret' = None /\ error_ret' = None
          ELSE \A f \in {check_failover(last_pool, current_pool, r[1].pool)} :
                  /\ last_pool' = f.last_pool
                  /\ failover_ret' = f.ret
                  /\ error_window' =
                        IF present(r[1].upstream_status)
                        THEN deque_append(error_window, window_size,
                                          startswith5(r[1].upstream_status[1]))
                        ELSE error_window
                  /\ error_ret' # None
                        <=> /\ present(r[1].upstream_status)
                            /\ Len(error_window') = window_size
                            /\ rate_above(error_window', error_threshold)]_vars

\* a failover was detected, its alert was rejected by the cooldown, and
\* last_pool is the new pool
C19_Witness ==
    /\ failover_ret # None
    /\ ~maintenance_mode /\ slack_webhook
    /\ gate_log # <<>>
    /\ gate_log[1].alert_type = "failover"
    /\ ~gate_log[1].ret
    /\ posted = <<>>
    /\ last_pool = Some(failover_ret[1].to_pool)

\* C20: in a run where the clock never went back, any two approved
\* can_send_alert calls of the same type are at least cooldown_sec apart
\* (an approval never falls on the time of an earlier one of its type), and
\* no entry of last_alert_time decreases or goes away.
C20_ApprovalsSpaced ==
    [][clock_ok' =>
        /\ \A a \in approvals_of(gate_log') : a \notin approval_log
        /\ \A a, b \in approval_log' :
              (a.alert_type = b.alert_type /\ a.now < b.now)
              => b.now - a.now >= cooldown_sec
        /\ \A k \in DOMAIN last_alert_time :
              /\ k \in DOMAIN last_alert_time'
              /\ last_alert_time'[k] >= last_alert_time[k]]_vars

\* two failover alerts were approved exactly cooldown_sec apart, the clock
\* never going back, and the second was posted
C20_Witness ==
    /\ clock_ok
    /\ gate_log # <<>> /\ gate_log[1].ret /\ gate_log[1].alert_type = "failover"
    /\ \E a \in approval_log :
          /\ a.alert_type = "failover"
          /\ gate_log[1].now - a.now = cooldown_sec
    /\ posted # <<>>

====
